---- MODULE Spec2Model ----
(***************************************************************************)
(* A model of module-moga-3d.py: the activation and normalization          *)
(* factories, LayerNorm, MultiOrderDWConv_3D, MultiOrderGatedAggregation_3D,*)
(* ChannelAggregationFFN_3D and MogaBlock_3D.                              *)
(*                                                                         *)
(* Tensors are modelled by their shape (a record B, C, D, H, W), by the    *)
(* origin of their channels (a sequence of channel indices) and, where a   *)
(* claim is about values, by one element in fixed point.                   *)
(***************************************************************************)
EXTENDS Integers, Sequences, FiniteSets, TLC

VARIABLES pc, cfg, obj, err, inp, out

vars == <<pc, cfg, obj, err, inp, out>>

NoObj == [kind |-> "none"]

(***************************************************************************)
(* Bounds of the model.                                                    *)
(***************************************************************************)
MaxEmbed == 55
MaxSplit == 6
MaxExtent == 3
MaxConvEmbed == 4
MaxConvSplit == 2
MaxKernel == 5
MaxFfnRatio == 2
MaxGate == 2
MaxVal == 2

(***************************************************************************)
(* Helpers on sequences of integers (Python's sum, min, max on lists).     *)
(***************************************************************************)
RECURSIVE sum(_)
sum(s) == IF s = <<>> THEN 0 ELSE Head(s) + sum(Tail(s))

min(s) == CHOOSE m \in {s[i] : i \in 1..Len(s)} : \A j \in 1..Len(s) : m <= s[j]

max(s) == CHOOSE m \in {s[i] : i \in 1..Len(s)} : \A j \in 1..Len(s) : m >= s[j]

(***************************************************************************)
(* build_act_layer: None -> Identity; otherwise the selector is asserted   *)
(* to be one of GELU, ReLU, SiLU, and GELU is the fall-through branch.     *)
(* Python's None is the string "None" here.                                *)
(***************************************************************************)
\* A slip that would drop the assertion and fall through to GELU.
build_act_layer_unchecked(act_type) ==
    IF act_type = "None" THEN [err |-> "none", layer |-> "Identity"]
    ELSE IF act_type = "SiLU" THEN [err |-> "none", layer |-> "SiLU"]
    ELSE IF act_type = "ReLU" THEN [err |-> "none", layer |-> "ReLU"]
    ELSE [err |-> "none", layer |-> "GELU"]

build_act_layer(act_type) ==
    IF act_type = "None" THEN [err |-> "none", layer |-> "Identity"]
    ELSE IF act_type \notin {"GELU", "ReLU", "SiLU"}
         THEN [err |-> "AssertionError", layer |-> "none"]
    ELSE IF act_type = "SiLU" THEN [err |-> "none", layer |-> "SiLU"]
    ELSE IF act_type = "ReLU" THEN [err |-> "none", layer |-> "ReLU"]
    ELSE [err |-> "none", layer |-> "GELU"]

(***************************************************************************)
(* LayerNorm.__init__: data_format defaults to "channels_last"; any value  *)
(* other than the two formats raises NotImplementedError.                  *)
(***************************************************************************)
DefaultDataFormat == "channels_last"

LayerNorm_init(normalized_shape, eps, data_format) ==
    IF data_format \notin {"channels_last", "channels_first"}
    THEN [err |-> "NotImplementedError", layer |-> NoObj]
    ELSE [err |-> "none",
          layer |-> [kind |-> "LayerNorm", num_channels |-> normalized_shape,
                     num_groups |-> 0, eps |-> eps,
                     data_format |-> data_format]]

(***************************************************************************)
(* build_norm_layer: the selector is asserted to be one of BN, GN, LN2d,   *)
(* SyncBN; BatchNorm3d is the fall-through branch. LN2d calls LayerNorm    *)
(* with two arguments, so data_format takes its default.                   *)
(***************************************************************************)
build_norm_layer(norm_type, embed_dims) ==
    IF norm_type \notin {"BN", "GN", "LN2d", "SyncBN"}
    THEN [err |-> "AssertionError", layer |-> NoObj]
    ELSE IF norm_type = "GN"
    THEN [err |-> "none",
          layer |-> [kind |-> "GroupNorm", num_channels |-> embed_dims,
                     num_groups |-> embed_dims, eps |-> "1e-5",
                     data_format |-> "channels_first"]]
    ELSE IF norm_type = "LN2d"
    THEN LayerNorm_init(embed_dims, "1e-6", DefaultDataFormat)
    ELSE IF norm_type = "SyncBN"
    THEN [err |-> "none",
          layer |-> [kind |-> "SyncBatchNorm", num_channels |-> embed_dims,
                     num_groups |-> 0, eps |-> "1e-5",
                     data_format |-> "channels_first"]]
    ELSE [err |-> "none",
          layer |-> [kind |-> "BatchNorm3d", num_channels |-> embed_dims,
                     num_groups |-> 0, eps |-> "1e-5",
                     data_format |-> "channels_first"]]

(***************************************************************************)
(* The forward pass of a normalization layer on a tensor of shape x.       *)
(* reduce is the set of tensor axes (0-based, as in the code) over which   *)
(* mean and variance are taken for one normalized group; affine is the     *)
(* axis the weight and bias are indexed by.                                *)
(*   LayerNorm, channels_last: F.layer_norm over the last axis, whose      *)
(*     extent must equal normalized_shape;                                 *)
(*   LayerNorm, channels_first: mean over axes (2, 3, 4), weight[:, None,  *)
(*     None, None] indexed by the channel axis;                            *)
(*   GroupNorm with num_groups = num_channels: one group per channel;      *)
(*   BatchNorm3d and SyncBatchNorm: statistics per channel over the batch  *)
(*     and the spatial axes.                                               *)
(***************************************************************************)
LayerNorm_forward(layer, x) ==
    IF layer.data_format = "channels_last"
    THEN IF x.W = layer.num_channels
         THEN [err |-> "none", shape |-> x, reduce |-> {4}, affine |-> 4]
         ELSE [err |-> "RuntimeError", shape |-> x, reduce |-> {}, affine |-> 4]
    ELSE IF x.C = layer.num_channels
         THEN [err |-> "none", shape |-> x, reduce |-> {2, 3, 4}, affine |-> 1]
         ELSE [err |-> "RuntimeError", shape |-> x, reduce |-> {}, affine |-> 1]

norm_forward(layer, x) ==
    IF layer.kind = "LayerNorm" THEN LayerNorm_forward(layer, x)
    ELSE IF x.C # layer.num_channels
    THEN [err |-> "RuntimeError", shape |-> x, reduce |-> {}, affine |-> 1]
    ELSE IF layer.kind = "GroupNorm"
    THEN [err |-> "none", shape |-> x, reduce |-> {2, 3, 4}, affine |-> 1]
    ELSE [err |-> "none", shape |-> x, reduce |-> {0, 2, 3, 4}, affine |-> 1]

(***************************************************************************)
(* nn.Conv3d as the module uses it: construction requires positive groups  *)
(* dividing both channel counts; the forward pass requires the input's     *)
(* channel count to be in_channels and maps each spatial extent n to       *)
(* (n + 2p - d(k-1) - 1) div stride + 1, which must be at least 1.         *)
(***************************************************************************)
Conv3d(in_channels, out_channels, kernel_size, padding, dilation, groups) ==
    IF groups <= 0 \/ in_channels % groups # 0 \/ out_channels % groups # 0
    THEN [err |-> "ValueError", layer |-> NoObj]
    ELSE [err |-> "none",
          layer |-> [kind |-> "Conv3d", in_channels |-> in_channels,
                     out_channels |-> out_channels,
                     kernel_size |-> kernel_size, padding |-> padding,
                     dilation |-> dilation, groups |-> groups, stride |-> 1]]

ConvExtent(conv, n) ==
    (n + 2 * conv.padding - conv.dilation * (conv.kernel_size - 1) - 1)
        \div conv.stride + 1

Conv3d_forward(conv, x) ==
    IF x.C # conv.in_channels
       \/ ConvExtent(conv, x.D) < 1 \/ ConvExtent(conv, x.H) < 1
       \/ ConvExtent(conv, x.W) < 1
    THEN [err |-> "RuntimeError", shape |-> x]
    ELSE [err |-> "none",
          shape |-> [B |-> x.B, C |-> conv.out_channels,
                     D |-> ConvExtent(conv, x.D), H |-> ConvExtent(conv, x.H),
                     W |-> ConvExtent(conv, x.W)]]

(***************************************************************************)
(* Tensor helpers. A tensor is [shape, chan]: chan[j+1] is the channel of  *)
(* the base tensor that channel j of this tensor was computed from.        *)
(***************************************************************************)
\* Bind(e, F) is F(e) with e evaluated once: the sequencing of the code's
\* statements, each using the results of the earlier ones.
Bind(e, F(_)) == CHOOSE r \in {F(v) : v \in {e}} : TRUE

Shape(b, c, d, h, w) == [B |-> b, C |-> c, D |-> d, H |-> h, W |-> w]

Iota(n) == [j \in 1..n |-> j - 1]

Min2(a, b) == IF a <= b THEN a ELSE b

\* Python's s[a:b] for 0 <= a, 0 <= b.
PySlice(s, a, b) == SubSeq(s, a + 1, Min2(b, Len(s)))

\* Python's s[i] for 0 <= i < len(s).
Idx(s, i) == s[i + 1]

BDim(a, b) == IF a = b THEN a ELSE IF a = 1 THEN b ELSE IF b = 1 THEN a ELSE -1

\* The shape of an elementwise operation on two tensors (broadcasting).
Broadcast(x, y) ==
    LET s == Shape(BDim(x.B, y.B), BDim(x.C, y.C), BDim(x.D, y.D),
                   BDim(x.H, y.H), BDim(x.W, y.W))
    IN IF -1 \in {s.B, s.C, s.D, s.H, s.W}
       THEN [err |-> "RuntimeError", shape |-> x]
       ELSE [err |-> "none", shape |-> s]

(***************************************************************************)
(* int(split_ratio[i] * embed_dims), where split_ratio[i] is the double    *)
(* channel_split[i] / sum(channel_split). The product of the rounded ratio *)
(* and embed_dims can fall just below the exact quotient, and int() then   *)
(* truncates to one less. FloatShortfall lists every <<i, s, e>> with      *)
(* 0 <= i <= 10, i <= s <= 40 and 1 <= e <= 80 for which IEEE double       *)
(* arithmetic does so (e.g. int((3 / 11) * 55) is 14).                     *)
(***************************************************************************)
FloatShortfall == {<<3, 11, 55>>, <<6, 11, 55>>, <<6, 22, 55>>, <<9, 33, 55>>}

IntOfRatioTimes(i, s, e) ==
    IF <<i, s, e>> \in FloatShortfall THEN (i * e) \div s - 1
    ELSE (i * e) \div s

(***************************************************************************)
(* MultiOrderDWConv_3D.__init__, statement by statement: the split ratios  *)
(* and the three sizes are computed first, then the three assertions, then *)
(* the four convolutions.                                                  *)
(***************************************************************************)
Raise(e) == [err |-> e, layer |-> NoObj]

\* A slip that would round all three sizes independently.
SplitSizes_rounded(embed_dims, channel_split) ==
    LET s == sum(channel_split)
    IN [embed_dims_0 |-> IntOfRatioTimes(Idx(channel_split, 0), s, embed_dims),
        embed_dims_1 |-> IntOfRatioTimes(Idx(channel_split, 1), s, embed_dims),
        embed_dims_2 |-> IntOfRatioTimes(Idx(channel_split, 2), s, embed_dims)]

\* embed_dims_1 and embed_dims_2 are rounded down from the ratios and
\* embed_dims_0 is what is left. Needs len(channel_split) >= 3 and a
\* non-zero sum.
SplitSizes(embed_dims, channel_split) ==
    LET s == sum(channel_split)
        embed_dims_1 == IntOfRatioTimes(Idx(channel_split, 1), s, embed_dims)
        embed_dims_2 == IntOfRatioTimes(Idx(channel_split, 2), s, embed_dims)
    IN [embed_dims_0 |-> embed_dims - embed_dims_1 - embed_dims_2,
        embed_dims_1 |-> embed_dims_1,
        embed_dims_2 |-> embed_dims_2]

\* A slip that would ignore the dilation in the padding.
DWPadding_nodilation(mult, dilation) == mult \div 2

\* padding=(1 + 4 * dw_dilation[i]) // 2 for the kernels of 5 and
\* padding=(1 + 6 * dw_dilation[2]) // 2 for the kernel of 7.
DWPadding(mult, dilation) == (1 + mult * dilation) \div 2

MultiOrderDWConv_3D_init(embed_dims, dw_dilation, channel_split) ==
    LET n == Len(channel_split)
        s == sum(channel_split)
    IN
    IF n > 0 /\ s = 0 THEN Raise("ZeroDivisionError")
    ELSE IF n < 3 THEN Raise("IndexError")
    ELSE
    LET embed_dims_1 == SplitSizes(embed_dims, channel_split).embed_dims_1
        embed_dims_2 == SplitSizes(embed_dims, channel_split).embed_dims_2
        embed_dims_0 == SplitSizes(embed_dims, channel_split).embed_dims_0
    IN
    IF ~(Len(dw_dilation) = n /\ n = 3) THEN Raise("AssertionError")
    ELSE IF ~(1 <= min(dw_dilation) /\ max(dw_dilation) <= 3)
         THEN Raise("AssertionError")
    ELSE IF embed_dims % s # 0 THEN Raise("AssertionError")
    ELSE
    LET DW_conv0 == Conv3d(embed_dims, embed_dims, 5,
                           DWPadding(4, Idx(dw_dilation, 0)),
                           Idx(dw_dilation, 0), embed_dims)
        DW_conv1 == Conv3d(embed_dims_1, embed_dims_1, 5,
                           DWPadding(4, Idx(dw_dilation, 1)),
                           Idx(dw_dilation, 1), embed_dims_1)
        DW_conv2 == Conv3d(embed_dims_2, embed_dims_2, 7,
                           DWPadding(6, Idx(dw_dilation, 2)),
                           Idx(dw_dilation, 2), embed_dims_2)
        PW_conv == Conv3d(embed_dims, embed_dims, 1, 0, 1, 1)
    IN
    IF \E c \in {DW_conv0, DW_conv1, DW_conv2, PW_conv} : c.err # "none"
    THEN Raise("ValueError")
    ELSE [err |-> "none",
          layer |-> [kind |-> "MultiOrderDWConv_3D",
                     embed_dims |-> embed_dims,
                     embed_dims_0 |-> embed_dims_0,
                     embed_dims_1 |-> embed_dims_1,
                     embed_dims_2 |-> embed_dims_2,
                     DW_conv0 |-> DW_conv0.layer, DW_conv1 |-> DW_conv1.layer,
                     DW_conv2 |-> DW_conv2.layer, PW_conv |-> PW_conv.layer]]

(***************************************************************************)
(* MultiOrderDWConv_3D.forward on a tensor of shape x. A depthwise         *)
(* convolution (groups = channels) computes output channel j from input    *)
(* channel j alone, so it keeps the channel origins. The result records    *)
(* the three slices, the concatenation and every convolution applied.      *)
(***************************************************************************)
Applied(name, conv, x) ==
    [name |-> name, conv |-> conv, x |-> x,
     y |-> Conv3d_forward(conv, x).shape, err |-> Conv3d_forward(conv, x).err]

WithC(x, c) == Shape(x.B, c, x.D, x.H, x.W)

\* A slip that would concatenate the branches in another order.
CatOrder_swapped(slice0, x_1, x_2) == x_1 \o slice0 \o x_2

\* torch.cat([x_0[:, :embed_dims_0, ...], x_1, x_2], dim=1)
CatOrder(slice0, x_1, x_2) == slice0 \o x_1 \o x_2

SameSpatial(x, y) == x.B = y.B /\ x.D = y.D /\ x.H = y.H /\ x.W = y.W

MultiOrderDWConv_3D_forward(self, x) ==
    Bind(Applied("DW_conv0", self.DW_conv0, x), LAMBDA a0 :
    LET x_0 == a0.y
        chan0 == Iota(x_0.C)
        slice1 == PySlice(chan0, self.embed_dims_0,
                          self.embed_dims_0 + self.embed_dims_1)
        slice2 == PySlice(chan0, self.embed_dims - self.embed_dims_2, Len(chan0))
        slice0 == PySlice(chan0, 0, self.embed_dims_0)
    IN
    Bind(Applied("DW_conv1", self.DW_conv1, WithC(x_0, Len(slice1))), LAMBDA a1 :
    Bind(Applied("DW_conv2", self.DW_conv2, WithC(x_0, Len(slice2))), LAMBDA a2 :
    Bind(CatOrder(slice0, slice1, slice2), LAMBDA cat :
    Bind(Applied("PW_conv", self.PW_conv, WithC(x_0, Len(cat))), LAMBDA a3 :
    LET failed == a0.err # "none" \/ a1.err # "none" \/ a2.err # "none"
                  \/ ~SameSpatial(x_0, a1.y) \/ ~SameSpatial(x_0, a2.y)
                  \/ a3.err # "none"
    IN [err |-> IF failed THEN "RuntimeError" ELSE "none",
        shape |-> a3.y,
        slice0 |-> slice0, slice1 |-> slice1, slice2 |-> slice2,
        in1 |-> a1.x.C, in2 |-> a2.x.C,
        cat |-> cat,
        convs |-> <<a0, a1, a2, a3>>])))))

(***************************************************************************)
(* ChannelAggregationFFN_3D.__init__ and forward. The depthwise            *)
(* convolution is built with padding kernel_size // 2 and dilation 1;      *)
(* kernel_size is not validated.                                           *)
(***************************************************************************)
FFNPadding(kernel_size) == kernel_size \div 2

ChannelAggregationFFN_3D_init(embed_dims, feedforward_channels, kernel_size, act_type) ==
    LET fc1 == Conv3d(embed_dims, feedforward_channels, 1, 0, 1, 1)
        dwconv == Conv3d(feedforward_channels, feedforward_channels,
                         kernel_size, FFNPadding(kernel_size), 1,
                         feedforward_channels)
        act == build_act_layer(act_type)
        fc2 == Conv3d(feedforward_channels, embed_dims, 1, 0, 1, 1)
        decompose == Conv3d(feedforward_channels, 1, 1, 0, 1, 1)
    IN
    IF fc1.err # "none" \/ dwconv.err # "none" THEN Raise("ValueError")
    ELSE IF act.err # "none" THEN Raise(act.err)
    ELSE IF fc2.err # "none" \/ decompose.err # "none" THEN Raise("ValueError")
    ELSE [err |-> "none",
          layer |-> [kind |-> "ChannelAggregationFFN_3D",
                     embed_dims |-> embed_dims,
                     feedforward_channels |-> feedforward_channels,
                     fc1 |-> fc1.layer, dwconv |-> dwconv.layer,
                     act |-> act.layer, fc2 |-> fc2.layer,
                     decompose |-> decompose.layer,
                     decompose_act |-> act.layer]]

\* The first error of a sequence of steps, "none" if there is none.
RECURSIVE FirstErr(_)
FirstErr(es) ==
    IF es = <<>> THEN "none"
    ELSE IF Head(es) # "none" THEN Head(es) ELSE FirstErr(Tail(es))

ChannelAggregationFFN_3D_forward(self, x) ==
    Bind(Applied("fc1", self.fc1, x), LAMBDA a1 :
    Bind(Applied("dwconv", self.dwconv, a1.y), LAMBDA a2 :
    \* feat_decompose: x + sigma(x - decompose_act(decompose(x)))
    Bind(Applied("decompose", self.decompose, a2.y), LAMBDA a3 :
    Bind(Broadcast(a2.y, a3.y), LAMBDA sub :
    Bind(Broadcast(a2.y, sub.shape), LAMBDA add :
    Bind(Applied("fc2", self.fc2, add.shape), LAMBDA a4 :
    [err |-> FirstErr(<<a1.err, a2.err, a3.err, sub.err, add.err, a4.err>>),
     shape |-> a4.y,
     convs |-> <<a1, a2, a3, a4>>]))))))

(***************************************************************************)
(* MultiOrderGatedAggregation_3D.__init__ and the shapes of its forward:   *)
(* proj_1, the pooled mean (B, C, 1, 1, 1), gate, value, the product,      *)
(* proj_2 and the shortcut addition.                                       *)
(***************************************************************************)
MultiOrderGatedAggregation_3D_init(embed_dims, attn_dw_dilation, attn_channel_split, attn_act_type, attn_force_fp32) ==
    LET proj_1 == Conv3d(embed_dims, embed_dims, 1, 0, 1, 1)
        gate == Conv3d(embed_dims, embed_dims, 1, 0, 1, 1)
        value == MultiOrderDWConv_3D_init(embed_dims, attn_dw_dilation,
                                          attn_channel_split)
        proj_2 == Conv3d(embed_dims, embed_dims, 1, 0, 1, 1)
        act_value == build_act_layer(attn_act_type)
        act_gate == build_act_layer(attn_act_type)
    IN
    IF proj_1.err # "none" \/ gate.err # "none" THEN Raise("ValueError")
    ELSE IF value.err # "none" THEN Raise(value.err)
    ELSE IF proj_2.err # "none" THEN Raise("ValueError")
    ELSE IF act_value.err # "none" THEN Raise(act_value.err)
    ELSE [err |-> "none",
          layer |-> [kind |-> "MultiOrderGatedAggregation_3D",
                     embed_dims |-> embed_dims,
                     attn_force_fp32 |-> attn_force_fp32,
                     proj_1 |-> proj_1.layer, gate |-> gate.layer,
                     value |-> value.layer, proj_2 |-> proj_2.layer,
                     act_value |-> act_value.layer,
                     act_gate |-> act_gate.layer]]

MultiOrderGatedAggregation_3D_shapes(self, x) ==
    \* feat_decompose
    Bind(Applied("proj_1", self.proj_1, x), LAMBDA a1 :
    Bind(Broadcast(a1.y, Shape(a1.y.B, a1.y.C, 1, 1, 1)), LAMBDA sub :
    Bind(Broadcast(a1.y, sub.shape), LAMBDA add :
    \* gating and value branch
    Bind(Applied("gate", self.gate, add.shape), LAMBDA a2 :
    Bind(MultiOrderDWConv_3D_forward(self.value, add.shape), LAMBDA v :
    \* aggregation and shortcut
    Bind(Broadcast(a2.y, v.shape), LAMBDA mul :
    Bind(Applied("proj_2", self.proj_2, mul.shape), LAMBDA a3 :
    Bind(Broadcast(a3.y, x), LAMBDA res :
    [err |-> FirstErr(<<a1.err, sub.err, add.err, a2.err, v.err, mul.err,
                        a3.err, res.err>>),
     shape |-> res.shape,
     convs |-> <<a1, a2>> \o v.convs \o <<a3>>]))))))))

(***************************************************************************)
(* Inputs of the specifications.                                           *)
(***************************************************************************)
SeqsOf(S, n) == [1..n -> S]

InputShapes(c) ==
    {Shape(1, c, d, h, w) : d \in 1..MaxExtent, h \in 1..MaxExtent,
                            w \in 1..MaxExtent}

\* channel_split: every list of three ratios, and lists of other lengths.
SplitLists ==
    SeqsOf(0..MaxSplit, 3) \cup UNION {SeqsOf(0..1, n) : n \in {0, 1, 2, 4}}

\* dw_dilation: in range, out of range and of other lengths.
DilationLists ==
    {<<d, d, d>> : d \in 0..4}
    \cup {<<1, 2, 3>>, <<3, 1, 2>>, <<0, 2, 3>>, <<1, 2, 4>>, <<1, 2>>,
          <<>>, <<1, 2, 3, 1>>}

(***************************************************************************)
(* SpecDW: MultiOrderDWConv_3D is constructed from a drawn configuration   *)
(* and, if construction succeeded, run on an input with embed_dims         *)
(* channels.                                                               *)
(***************************************************************************)
InitDW ==
    /\ pc = "new"
    /\ cfg \in [kind : {"dwconv"}, embed_dims : 1..MaxEmbed,
                dw_dilation : DilationLists, channel_split : SplitLists]
    /\ obj = NoObj
    /\ err = "none"
    /\ inp = NoObj
    /\ out = NoObj

DWConstruct ==
    /\ pc = "new"
    /\ cfg.kind = "dwconv"
    /\ LET r == MultiOrderDWConv_3D_init(cfg.embed_dims, cfg.dw_dilation,
                                         cfg.channel_split)
       IN /\ obj' = r.layer
          /\ err' = r.err
    /\ pc' = "built"
    /\ UNCHANGED <<cfg, inp, out>>

DWForward ==
    /\ pc = "built"
    /\ cfg.kind = "dwconv"
    /\ err = "none"
    /\ \E x \in InputShapes(cfg.embed_dims) :
          /\ inp' = x
          /\ out' = MultiOrderDWConv_3D_forward(obj, x)
    /\ pc' = "done"
    /\ UNCHANGED <<cfg, obj, err>>

NextDW == DWConstruct \/ DWForward

SpecDW == InitDW /\ [][NextDW]_vars

(***************************************************************************)
(* Claims about MultiOrderDWConv_3D (checked under SpecDW).                *)
(***************************************************************************)
PreconditionViolated(c) ==
    \/ Len(c.dw_dilation) # 3
    \/ \E i \in 1..Len(c.dw_dilation) :
          c.dw_dilation[i] < 1 \/ c.dw_dilation[i] > 3
    \/ Len(c.channel_split) # 3
    \/ sum(c.channel_split) = 0
    \/ (sum(c.channel_split) # 0 /\ c.embed_dims % sum(c.channel_split) # 0)

\* C3: constructing MultiOrderDWConv_3D with any violated precondition
\* (dw_dilation not of length 3, a dilation outside [1,3], channel_split not
\* of length 3, embed_dims not divisible by sum(channel_split), the sum being
\* 0 included) always fails with an assertion error.
C3_ViolationRaisesAssertion ==
    (pc = "built" /\ cfg.kind = "dwconv" /\ PreconditionViolated(cfg))
        => err = "AssertionError"

\* C6: for three positive ratios whose sum divides embed_dims, the sizes
\* computed by the constructor are non-negative, sum to embed_dims exactly,
\* and what rounding takes from embed_dims_1 and embed_dims_2 goes to
\* embed_dims_0.
C6_SplitExact ==
    (pc = "built" /\ cfg.kind = "dwconv" /\ err = "none"
     /\ \A i \in 1..3 : cfg.channel_split[i] > 0)
        => LET s == sum(cfg.channel_split)
               exact(i) == (cfg.channel_split[i] * cfg.embed_dims) \div s
           IN /\ obj.embed_dims_0 >= 0
              /\ obj.embed_dims_1 >= 0
              /\ obj.embed_dims_2 >= 0
              /\ obj.embed_dims_0 + obj.embed_dims_1 + obj.embed_dims_2
                    = cfg.embed_dims
              /\ obj.embed_dims_1 <= exact(2)
              /\ obj.embed_dims_2 <= exact(3)
              /\ obj.embed_dims_0
                    = exact(1) + (exact(2) - obj.embed_dims_1)
                               + (exact(3) - obj.embed_dims_2)

\* C6 witness: a construction in which rounding took a channel from a later
\* branch and embed_dims_0 absorbed it.
C6_Witness ==
    /\ pc = "built" /\ cfg.kind = "dwconv" /\ err = "none"
    /\ \A i \in 1..3 : cfg.channel_split[i] > 0
    /\ obj.embed_dims_0
          > (cfg.channel_split[1] * cfg.embed_dims) \div sum(cfg.channel_split)

Range(s) == {s[i] : i \in 1..Len(s)}

\* C10: in MultiOrderDWConv_3D.forward the slices [0, c0), [c0, c0+c1) and
\* [C-c2, C) of x_0 are pairwise disjoint, contiguous and cover [0, C) once,
\* each slice has the channel count its convolution was built for, and the
\* concatenation has C channels, each at the index it had in x_0.
C10_SlicesPartition ==
    (pc = "done" /\ cfg.kind = "dwconv")
        => /\ out.err = "none"
           /\ out.slice0 = [j \in 1..obj.embed_dims_0 |-> j - 1]
           /\ out.slice1 = [j \in 1..obj.embed_dims_1
                               |-> obj.embed_dims_0 + j - 1]
           /\ out.slice2 = [j \in 1..obj.embed_dims_2
                               |-> obj.embed_dims_0 + obj.embed_dims_1 + j - 1]
           /\ Range(out.slice0) \cap Range(out.slice1) = {}
           /\ Range(out.slice0) \cap Range(out.slice2) = {}
           /\ Range(out.slice1) \cap Range(out.slice2) = {}
           /\ Range(out.slice0) \cup Range(out.slice1) \cup Range(out.slice2)
                 = 0..(cfg.embed_dims - 1)
           /\ Len(out.slice1) = obj.DW_conv1.in_channels
           /\ Len(out.slice2) = obj.DW_conv2.in_channels
           /\ Len(out.cat) = cfg.embed_dims
           /\ \A j \in 1..Len(out.cat) : out.cat[j] = j - 1
           /\ out.shape = inp

\* C10 witness: a forward pass whose three slices are all non-empty and of
\* three different sizes.
C10_Witness ==
    /\ pc = "done" /\ cfg.kind = "dwconv" /\ out.err = "none"
    /\ Len(out.slice0) > 0
    /\ Len(out.slice1) > Len(out.slice0)
    /\ Len(out.slice2) > Len(out.slice1)

(***************************************************************************)
(* SpecConv: MultiOrderGatedAggregation_3D (which holds the multi-order    *)
(* convolutions and four 1x1x1 convolutions) and ChannelAggregationFFN_3D  *)
(* are constructed from drawn configurations and run on drawn inputs; the  *)
(* result records every convolution applied with its input and output      *)
(* shape.                                                                  *)
(***************************************************************************)
ActSelectors == {"None", "GELU", "ReLU", "SiLU", "Tanh", "gelu"}

AttnCfgs ==
    [kind : {"attn"}, embed_dims : 1..MaxConvEmbed,
     attn_dw_dilation : SeqsOf(1..3, 3),
     attn_channel_split : SeqsOf(1..MaxConvSplit, 3) \cup {<<1, 3, 4>>},
     attn_act_type : {"None", "SiLU", "Tanh"},
     attn_force_fp32 : BOOLEAN]

FFNCfgs ==
    {[kind |-> "ffn", embed_dims |-> e, feedforward_channels |-> e * r,
      kernel_size |-> k, act_type |-> a] :
        e \in 1..MaxConvEmbed, r \in 1..MaxFfnRatio, k \in 1..MaxKernel,
        a \in ActSelectors}

InitConv ==
    /\ pc = "new"
    /\ cfg \in AttnCfgs \cup FFNCfgs
    /\ obj = NoObj
    /\ err = "none"
    /\ inp = NoObj
    /\ out = NoObj

AttnConstruct ==
    /\ pc = "new"
    /\ cfg.kind = "attn"
    /\ LET r == MultiOrderGatedAggregation_3D_init(
                    cfg.embed_dims, cfg.attn_dw_dilation,
                    cfg.attn_channel_split, cfg.attn_act_type,
                    cfg.attn_force_fp32)
       IN /\ obj' = r.layer
          /\ err' = r.err
    /\ pc' = "built"
    /\ UNCHANGED <<cfg, inp, out>>

AttnForward ==
    /\ pc = "built"
    /\ cfg.kind = "attn"
    /\ err = "none"
    /\ \E x \in InputShapes(cfg.embed_dims) :
          /\ inp' = x
          /\ out' = MultiOrderGatedAggregation_3D_shapes(obj, x)
    /\ pc' = "done"
    /\ UNCHANGED <<cfg, obj, err>>

FFNConstruct ==
    /\ pc = "new"
    /\ cfg.kind = "ffn"
    /\ LET r == ChannelAggregationFFN_3D_init(
                    cfg.embed_dims, cfg.feedforward_channels,
                    cfg.kernel_size, cfg.act_type)
       IN /\ obj' = r.layer
          /\ err' = r.err
    /\ pc' = "built"
    /\ UNCHANGED <<cfg, inp, out>>

FFNForward ==
    /\ pc = "built"
    /\ cfg.kind = "ffn"
    /\ err = "none"
    /\ \E x \in InputShapes(cfg.embed_dims) :
          /\ inp' = x
          /\ out' = ChannelAggregationFFN_3D_forward(obj, x)
    /\ pc' = "done"
    /\ UNCHANGED <<cfg, obj, err>>

NextConv == AttnConstruct \/ AttnForward \/ FFNConstruct \/ FFNForward

SpecConv == InitConv /\ [][NextConv]_vars

PreservesExtents(a) ==
    /\ a.err = "none"
    /\ a.y.D = a.x.D
    /\ a.y.H = a.x.H
    /\ a.y.W = a.x.W

\* C9 as stated: every convolution built in the module preserves each
\* spatial extent n >= 1, the FFN depthwise convolution for every
\* kernel_size ChannelAggregationFFN_3D accepts included.
C9_EveryConvPreserves ==
    pc = "done" => \A i \in 1..Len(out.convs) : PreservesExtents(out.convs[i])

\* C9 amended: every convolution built in the module with an odd kernel
\* preserves each spatial extent n >= 1: DW_conv0, DW_conv1, DW_conv2 for
\* every dilation in [1,3], all 1x1x1 convolutions, and the FFN depthwise
\* convolution for every odd kernel_size; and only the FFN depthwise
\* convolution can have an even kernel, which grows each extent by one.
C9_OddKernelPreserves ==
    pc = "done" =>
        \A i \in 1..Len(out.convs) :
            LET a == out.convs[i]
            IN /\ a.conv.kernel_size % 2 = 1 => PreservesExtents(a)
               /\ a.conv.kernel_size % 2 = 0 =>
                     /\ a.name = "dwconv"
                     /\ a.y.D = a.x.D + 1 /\ a.y.H = a.x.H + 1
                     /\ a.y.W = a.x.W + 1

\* C9 witness: the three multi-order convolutions ran with dilations 1, 2
\* and 3 on an input with an extent of 1 and an extent above 1.
C9_Witness ==
    /\ pc = "done" /\ cfg.kind = "attn"
    /\ cfg.attn_dw_dilation = <<1, 2, 3>>
    /\ inp.D = 1 /\ inp.W = MaxExtent
    /\ \E i \in 1..Len(out.convs) :
          /\ out.convs[i].name = "DW_conv2"
          /\ out.convs[i].conv.padding = 9
          /\ PreservesExtents(out.convs[i])

(***************************************************************************)
(* SpecFactory: the two factories are called with drawn selectors, and a   *)
(* normalization layer that was built is run on an input with embed_dims   *)
(* channels.                                                               *)
(***************************************************************************)
NormSelectors == {"BN", "GN", "LN2d", "SyncBN", "LN", "IN", "bn"}

InitFactory ==
    /\ pc = "new"
    /\ cfg \in [kind : {"act"}, act_type : ActSelectors]
               \cup [kind : {"norm"}, norm_type : NormSelectors,
                     embed_dims : 1..MaxConvEmbed]
    /\ obj = NoObj
    /\ err = "none"
    /\ inp = NoObj
    /\ out = NoObj

BuildAct ==
    /\ pc = "new"
    /\ cfg.kind = "act"
    /\ LET r == build_act_layer(cfg.act_type)
       IN /\ obj' = [kind |-> r.layer]
          /\ err' = r.err
    /\ pc' = "built"
    /\ UNCHANGED <<cfg, inp, out>>

BuildNorm ==
    /\ pc = "new"
    /\ cfg.kind = "norm"
    /\ LET r == build_norm_layer(cfg.norm_type, cfg.embed_dims)
       IN /\ obj' = r.layer
          /\ err' = r.err
    /\ pc' = "built"
    /\ UNCHANGED <<cfg, inp, out>>

NormForward ==
    /\ pc = "built"
    /\ cfg.kind = "norm"
    /\ err = "none"
    /\ \E x \in InputShapes(cfg.embed_dims) :
          /\ inp' = x
          /\ out' = norm_forward(obj, x)
    /\ pc' = "done"
    /\ UNCHANGED <<cfg, obj, err>>

NextFactory == BuildAct \/ BuildNorm \/ NormForward

SpecFactory == InitFactory /\ [][NextFactory]_vars

\* C4: build_norm_layer maps 'BN' to 3D batch norm, 'GN' to group norm with
\* num_groups equal to num_channels, 'SyncBN' to synchronized batch norm, and
\* 'LN2d' to the custom layer norm in channel-first mode, which normalizes
\* each (batch, channel) pair over the three spatial axes of a (B,C,D,H,W)
\* tensor and applies a per-channel weight and bias.
C4_NormKinds ==
    /\ (pc = "built" /\ cfg.kind = "norm" /\ cfg.norm_type = "BN")
          => obj.kind = "BatchNorm3d"
    /\ (pc = "built" /\ cfg.kind = "norm" /\ cfg.norm_type = "GN")
          => (obj.kind = "GroupNorm" /\ obj.num_groups = obj.num_channels
              /\ obj.num_channels = cfg.embed_dims)
    /\ (pc = "built" /\ cfg.kind = "norm" /\ cfg.norm_type = "SyncBN")
          => obj.kind = "SyncBatchNorm"
    /\ (pc = "built" /\ cfg.kind = "norm" /\ cfg.norm_type = "LN2d")
          => (obj.kind = "LayerNorm" /\ obj.data_format = "channels_first")
    /\ (pc = "done" /\ cfg.kind = "norm" /\ cfg.norm_type = "LN2d")
          => (out.err = "none" /\ out.reduce = {2, 3, 4} /\ out.affine = 1)

\* C5: build_act_layer with a selector outside {None, GELU, ReLU, SiLU} and
\* build_norm_layer with a selector outside {BN, GN, LN2d, SyncBN} raise an
\* error and return no layer; for a selector inside the set no error is
\* raised and a layer is returned, and build_act_layer(None) returns the
\* identity.
C5_SelectorValidation ==
    /\ (pc = "built" /\ cfg.kind = "act")
          => /\ cfg.act_type \notin {"None", "GELU", "ReLU", "SiLU"}
                   => (err # "none" /\ obj = NoObj)
             /\ cfg.act_type \in {"None", "GELU", "ReLU", "SiLU"}
                   => (err = "none" /\ obj # NoObj)
             /\ cfg.act_type = "None" => obj.kind = "Identity"
    /\ (pc = "built" /\ cfg.kind = "norm")
          => /\ cfg.norm_type \notin {"BN", "GN", "LN2d", "SyncBN"}
                   => (err # "none" /\ obj = NoObj)
             /\ cfg.norm_type \in {"BN", "GN", "LN2d", "SyncBN"}
                   => (err = "none" /\ obj # NoObj)

\* C5 witness: build_act_layer was called with an unsupported selector and
\* raised.
C5_Witness ==
    /\ pc = "built" /\ cfg.kind = "act" /\ cfg.act_type = "Tanh"
    /\ err = "AssertionError" /\ obj = NoObj

(***************************************************************************)
(* Values of the gating step. One tensor element is held in fixed point,   *)
(* in thousandths; a product of two elements is in millionths. SiLU is     *)
(* x * sigmoid(x) and GELU is x * Phi(x) (nn.GELU's default), each rounded *)
(* to the nearest thousandth, on the gate inputs and on their images.      *)
(***************************************************************************)
SiLU(x) ==
    CASE x = -3000 -> -142
      [] x = -2000 -> -238
      [] x = -1000 -> -269
      [] x = -269 -> -117
      [] x = -238 -> -105
      [] x = -142 -> -66
      [] x = 0 -> 0
      [] x = 731 -> 493
      [] x = 1000 -> 731
      [] x = 1762 -> 1504
      [] x = 2000 -> 1762
      [] x = 2858 -> 2703
      [] x = 3000 -> 2858

GELU(x) ==
    CASE x = -3000 -> -4
      [] x = -2000 -> -46
      [] x = -1000 -> -159
      [] x = -159 -> -69
      [] x = -46 -> -22
      [] x = -4 -> -2
      [] x = 0 -> 0
      [] x = 841 -> 673
      [] x = 1000 -> 841
      [] x = 1954 -> 1904
      [] x = 2000 -> 1954
      [] x = 2996 -> 2992
      [] x = 3000 -> 2996

ReLU(x) == IF x > 0 THEN x ELSE 0

\* The forward pass of an activation layer on a tensor [val, dtype].
act_forward(layer, t) ==
    [val |-> IF layer = "SiLU" THEN SiLU(t.val)
             ELSE IF layer = "ReLU" THEN ReLU(t.val)
             ELSE IF layer = "GELU" THEN GELU(t.val)
             ELSE t.val,
     dtype |-> t.dtype]

\* Tensor.to(torch.float32): the value is kept (widening is exact), the
\* dtype becomes float32.
to_float32(t) == [val |-> t.val, dtype |-> "float32"]

\* The elementwise product: the wider dtype of the two.
Mul(a, b) ==
    [val |-> a.val * b.val,
     dtype |-> IF "float32" \in {a.dtype, b.dtype} THEN "float32"
               ELSE a.dtype]

\* proj_2, a 1x1x1 convolution: on one element with one channel, weight * p
\* + bias. The bias is in units, the product p in millionths.
proj_2_forward(proj_2, p) ==
    [val |-> proj_2.weight * p.val + proj_2.bias * 1000000, dtype |-> p.dtype]

\* MultiOrderGatedAggregation_3D.forward_gating(g, v)
forward_gating(self, g, v) ==
    LET g32 == to_float32(g)
        v32 == to_float32(v)
    IN proj_2_forward(self.proj_2, Mul(act_forward(self.act_gate, g32),
                                       act_forward(self.act_gate, v32)))

\* The aggregation step of MultiOrderGatedAggregation_3D.forward: from the
\* gate g and the value v to the tensor the shortcut is added to.
aggregation(self, g, v) ==
    IF ~self.attn_force_fp32
    THEN proj_2_forward(self.proj_2, Mul(act_forward(self.act_gate, g),
                                         act_forward(self.act_gate, v)))
    ELSE forward_gating(self, act_forward(self.act_gate, g),
                        act_forward(self.act_gate, v))

(***************************************************************************)
(* SpecGate: two MultiOrderGatedAggregation_3D modules with the same       *)
(* parameters, one with attn_force_fp32 and one without, run the           *)
(* aggregation step on the same gate and value.                            *)
(***************************************************************************)
GateValues == {k * 1000 : k \in (0 - MaxGate)..MaxGate}

InitGate ==
    /\ pc = {}
    /\ cfg \in [kind : {"gate"}, attn_act_type : {"None", "GELU", "ReLU", "SiLU"},
                weight : {-1, 1, 2}, bias : {0, 1},
                dtype : {"float16", "float32"}]
    /\ obj = NoObj
    /\ err = "none"
    /\ inp \in [g : GateValues, v : GateValues]
    /\ out = [default |-> NoObj, forced |-> NoObj]

GateModule(c, force) ==
    [attn_force_fp32 |-> force,
     act_gate |-> build_act_layer(c.attn_act_type).layer,
     proj_2 |-> [weight |-> c.weight, bias |-> c.bias]]

GateDefault ==
    /\ "default" \notin pc
    /\ out' = [out EXCEPT !.default =
                  aggregation(GateModule(cfg, FALSE),
                              [val |-> inp.g, dtype |-> cfg.dtype],
                              [val |-> inp.v, dtype |-> cfg.dtype])]
    /\ pc' = pc \cup {"default"}
    /\ UNCHANGED <<cfg, obj, err, inp>>

GateForced ==
    /\ "forced" \notin pc
    /\ out' = [out EXCEPT !.forced =
                  aggregation(GateModule(cfg, TRUE),
                              [val |-> inp.g, dtype |-> cfg.dtype],
                              [val |-> inp.v, dtype |-> cfg.dtype])]
    /\ pc' = pc \cup {"forced"}
    /\ UNCHANGED <<cfg, obj, err, inp>>

NextGate == GateDefault \/ GateForced

SpecGate == InitGate /\ [][NextGate]_vars

\* C2: the forced-float32 path and the default path compute the same
\* function of the gate g and the value v, proj_2(act(g) * act(v)) with the
\* activation applied once to each, for every attn_act_type in {None, GELU,
\* ReLU, SiLU}: on the same g and v the two results have the same value.
C2_PathsAgree ==
    pc = {"default", "forced"} => out.forced.val = out.default.val

(***************************************************************************)
(* Values of the block. One tensor element is a float of reduced width:    *)
(* the finite values are the integers of magnitude at most MaxVal, a       *)
(* finite result beyond MaxVal overflows to an infinity, and the           *)
(* non-finite values behave as in IEEE 754 (0 * inf and inf - inf are      *)
(* NaN, NaN propagates).                                                   *)
(***************************************************************************)
Fin(n) == [k |-> "fin", v |-> n]

PosInf == [k |-> "inf", v |-> 1]

NegInf == [k |-> "inf", v |-> -1]

NaN == [k |-> "nan", v |-> 0]

Round(n) == IF n > MaxVal THEN PosInf ELSE IF n < 0 - MaxVal THEN NegInf ELSE Fin(n)

Sign(n) == IF n > 0 THEN 1 ELSE IF n < 0 THEN -1 ELSE 0

FMul(a, b) ==
    IF a.k = "nan" \/ b.k = "nan" THEN NaN
    ELSE IF a.k = "fin" /\ b.k = "fin" THEN Round(a.v * b.v)
    ELSE IF a.v = 0 \/ b.v = 0 THEN NaN
    ELSE [k |-> "inf", v |-> Sign(a.v) * Sign(b.v)]

FAdd(a, b) ==
    IF a.k = "nan" \/ b.k = "nan" THEN NaN
    ELSE IF a.k = "fin" /\ b.k = "fin" THEN Round(a.v + b.v)
    ELSE IF a.k = "inf" /\ b.k = "inf" THEN (IF a.v = b.v THEN a ELSE NaN)
    ELSE IF a.k = "inf" THEN a ELSE b

(***************************************************************************)
(* timm's DropPath as MogaBlock_3D uses it. drop_prob is in percent. With  *)
(* drop_prob 0, or outside training, the input is returned; otherwise the  *)
(* sample is multiplied by mask / keep_prob, mask being 1 with probability *)
(* keep_prob (and by mask alone when keep_prob is 0).                      *)
(***************************************************************************)
DropPathMasks(drop_prob) ==
    IF drop_prob = 100 THEN {0} ELSE {0, 1}

DropPath_forward(drop_prob, training, mask, x) ==
    IF drop_prob = 0 \/ ~training THEN x
    ELSE IF drop_prob = 100 THEN FMul(x, Fin(mask))
    ELSE FMul(x, Fin(mask * (100 \div (100 - drop_prob))))

\* nn.Identity() or DropPath(drop_path_rate), applied to x.
drop_path_forward(self, mask, x) ==
    IF self.drop_path = "Identity" THEN x
    ELSE DropPath_forward(self.drop_path_rate, self.training, mask, x)

\* A slip that would install DropPath whatever the rate.
drop_path_of_always(drop_path_rate) == "DropPath"

\* DropPath(drop_path_rate) if drop_path_rate > 0. else nn.Identity()
drop_path_of(drop_path_rate) ==
    IF drop_path_rate > 0 THEN "DropPath" ELSE "Identity"

(***************************************************************************)
(* MogaBlock_3D.__init__. ffn_ratio is an integer here, so                 *)
(* int(embed_dims * ffn_ratio) is the product; the FFN takes its default   *)
(* kernel_size of 3. Both layer scales start at init_value. sub_weight     *)
(* stands for the parameters of the attention and FFN branches.            *)
(***************************************************************************)
MogaBlock_3D_init(c) ==
    LET norm1 == build_norm_layer(c.norm_type, c.embed_dims)
        attn == MultiOrderGatedAggregation_3D_init(
                    c.embed_dims, c.attn_dw_dilation, c.attn_channel_split,
                    c.attn_act_type, c.attn_force_fp32)
        norm2 == build_norm_layer(c.norm_type, c.embed_dims)
        mlp_hidden_dim == c.embed_dims * c.ffn_ratio
        mlp == ChannelAggregationFFN_3D_init(c.embed_dims, mlp_hidden_dim, 3,
                                             c.act_type)
    IN
    IF norm1.err # "none" THEN Raise(norm1.err)
    ELSE IF attn.err # "none" THEN Raise(attn.err)
    ELSE IF norm2.err # "none" THEN Raise(norm2.err)
    ELSE IF mlp.err # "none" THEN Raise(mlp.err)
    ELSE [err |-> "none",
          layer |-> [kind |-> "MogaBlock_3D",
                     out_channels |-> c.embed_dims,
                     norm1 |-> norm1.layer, attn |-> attn.layer,
                     drop_path |-> drop_path_of(c.drop_path_rate),
                     drop_path_rate |-> c.drop_path_rate,
                     norm2 |-> norm2.layer, mlp |-> mlp.layer,
                     layer_scale_1 |-> c.init_value,
                     layer_scale_2 |-> c.init_value,
                     training |-> c.training,
                     sub_weight |-> c.sub_weight]]

(***************************************************************************)
(* MogaBlock_3D.forward: the shapes.                                       *)
(***************************************************************************)
MogaBlock_3D_shapes(self, x) ==
    LET scale == Shape(1, self.out_channels, 1, 1, 1)
    IN
    \* spatial
    Bind(norm_forward(self.norm1, x), LAMBDA n1 :
    Bind(MultiOrderGatedAggregation_3D_shapes(self.attn, n1.shape), LAMBDA at :
    Bind(Broadcast(scale, at.shape), LAMBDA s1 :
    Bind(Broadcast(x, s1.shape), LAMBDA r1 :
    \* channel
    Bind(norm_forward(self.norm2, r1.shape), LAMBDA n2 :
    Bind(ChannelAggregationFFN_3D_forward(self.mlp, n2.shape), LAMBDA ml :
    Bind(Broadcast(scale, ml.shape), LAMBDA s2 :
    Bind(Broadcast(r1.shape, s2.shape), LAMBDA r2 :
    [err |-> FirstErr(<<n1.err, at.err, s1.err, r1.err, n2.err, ml.err,
                        s2.err, r2.err>>),
     shape |-> r2.shape]))))))))

(***************************************************************************)
(* MogaBlock_3D.forward: the value of one element. The attention and FFN   *)
(* branches (with their normalization) are deterministic functions of      *)
(* their input and their parameters; a one-weight product stands for each. *)
(***************************************************************************)
SubModule(self, x) == FMul(Fin(self.sub_weight), x)

\* A slip that would leave the layer scale out of a residual branch.
ScaleBranch_unscaled(layer_scale, y) == y

\* self.layer_scale_i * branch
ScaleBranch(layer_scale, y) == FMul(Fin(layer_scale), y)

MogaBlock_3D_values(self, x, mask1, mask2) ==
    \* spatial
    Bind(SubModule(self, x), LAMBDA attn_out :
    Bind(FAdd(x, drop_path_forward(self, mask1,
                     ScaleBranch(self.layer_scale_1, attn_out))), LAMBDA x1 :
    \* channel
    Bind(SubModule(self, x1), LAMBDA mlp_out :
    Bind(FAdd(x1, drop_path_forward(self, mask2,
                      ScaleBranch(self.layer_scale_2, mlp_out))), LAMBDA x2 :
    [attn_out |-> attn_out, mlp_out |-> mlp_out, val |-> x2]))))

MogaBlock_3D_forward(self, x, mask1, mask2) ==
    Bind(MogaBlock_3D_shapes(self, x.shape), LAMBDA s :
    Bind(MogaBlock_3D_values(self, x.val, mask1, mask2), LAMBDA v :
    IF s.err # "none"
    THEN [err |-> s.err, shape |-> NoObj, val |-> NaN,
          attn_out |-> NaN, mlp_out |-> NaN]
    ELSE [err |-> "none", shape |-> s.shape, val |-> v.val,
          attn_out |-> v.attn_out, mlp_out |-> v.mlp_out]))

(***************************************************************************)
(* SpecBlock: a MogaBlock_3D is constructed from a drawn configuration,    *)
(* init_value setting both layer scales; forward is then called twice on   *)
(* the same input, each call drawing its own DropPath masks.               *)
(***************************************************************************)
BlockCfgs ==
    [kind : {"block"}, embed_dims : 1..MaxConvEmbed,
     ffn_ratio : 1..MaxFfnRatio,
     drop_path_rate : {0, 50, 100},
     act_type : {"GELU"},
     norm_type : {"BN", "GN", "LN2d", "SyncBN", "LN"},
     init_value : {0, 1},
     attn_dw_dilation : {<<1, 2, 3>>},
     attn_channel_split : {<<1, 1, 1>>, <<1, 1, 2>>},
     attn_act_type : {"SiLU", "Tanh"},
     attn_force_fp32 : {FALSE},
     training : BOOLEAN,
     sub_weight : {1, MaxVal}]

BlockInputs(c) ==
    {[shape |-> Shape(1, c.embed_dims, 1, h, w), val |-> Fin(n)] :
        h \in 1..MaxExtent, w \in 1..MaxExtent, n \in (0 - MaxVal)..MaxVal}

InitBlock ==
    /\ pc = "new"
    /\ cfg \in BlockCfgs
    /\ obj = NoObj
    /\ err = "none"
    /\ inp = NoObj
    /\ out = <<>>

BlockConstruct ==
    /\ pc = "new"
    /\ LET r == MogaBlock_3D_init(cfg)
       IN /\ obj' = r.layer
          /\ err' = r.err
    /\ pc' = "built"
    /\ UNCHANGED <<cfg, inp, out>>

BlockForward ==
    /\ pc \in {"built", "called"}
    /\ err = "none"
    /\ \E x \in (IF pc = "called" THEN {inp} ELSE BlockInputs(cfg)) :
       \E mask1 \in DropPathMasks(cfg.drop_path_rate),
          mask2 \in DropPathMasks(cfg.drop_path_rate) :
          /\ inp' = x
          /\ out' = Append(out, MogaBlock_3D_forward(obj, x, mask1, mask2))
    /\ pc' = IF pc = "called" THEN "done" ELSE "called"
    /\ UNCHANGED <<cfg, obj, err>>

NextBlock == BlockConstruct \/ BlockForward

SpecBlock == InitBlock /\ [][NextBlock]_vars

(***************************************************************************)
(* Claims about MogaBlock_3D (checked under SpecBlock).                    *)
(***************************************************************************)
ValidConfig(c) ==
    /\ sum(c.attn_channel_split) # 0
    /\ c.embed_dims % sum(c.attn_channel_split) = 0
    /\ Len(c.attn_dw_dilation) = 3
    /\ \A i \in 1..Len(c.attn_dw_dilation) : c.attn_dw_dilation[i] \in 1..3
    /\ c.act_type \in {"None", "GELU", "ReLU", "SiLU"}
    /\ c.attn_act_type \in {"None", "GELU", "ReLU", "SiLU"}
    /\ c.norm_type \in {"BN", "GN", "LN2d", "SyncBN"}

\* C1: for every valid configuration of MogaBlock_3D and every input of
\* shape (B,C,D,H,W) with C = embed_dims, construction succeeds and forward
\* completes without error and returns a tensor of exactly the input's shape.
C1_ShapePreserved ==
    /\ (pc = "built" /\ ValidConfig(cfg)) => err = "none"
    /\ (pc \in {"called", "done"} /\ ValidConfig(cfg))
          => \A i \in 1..Len(out) :
                out[i].err = "none" /\ out[i].shape = inp.shape

BothScalesZero == obj.layer_scale_1 = 0 /\ obj.layer_scale_2 = 0

\* C7 as stated: if layer_scale_1 and layer_scale_2 are both zero, forward(x)
\* returns exactly x for every input x and every drop_path_rate, whatever
\* the attention and FFN sub-modules compute.
C7_ZeroScaleIdentity ==
    (pc \in {"called", "done"} /\ BothScalesZero)
        => \A i \in 1..Len(out) :
              out[i].err = "none" => out[i].val = inp.val

\* C7 amended: if layer_scale_1 and layer_scale_2 are both zero and the
\* attention and FFN outputs are finite, forward(x) returns exactly x for
\* every drop_path_rate.
C7_ZeroScaleIdentityFinite ==
    (pc \in {"called", "done"} /\ BothScalesZero)
        => \A i \in 1..Len(out) :
              (out[i].err = "none" /\ out[i].attn_out.k = "fin"
               /\ out[i].mlp_out.k = "fin")
                  => out[i].val = inp.val

\* C7 witness: both layer scales are zero, DropPath is active, the branches
\* computed something other than zero, and forward returned its input.
C7_Witness ==
    /\ pc = "done" /\ BothScalesZero
    /\ cfg.drop_path_rate = 50 /\ cfg.training
    /\ out[1].err = "none"
    /\ out[1].attn_out.k = "fin" /\ out[1].attn_out.v # 0
    /\ out[1].mlp_out.k = "fin" /\ out[1].mlp_out.v # 0
    /\ out[1].val = inp.val

\* C8: a DropPath stage is installed only when drop_path_rate > 0; with
\* drop_path_rate = 0 the residual-dropout stage is the identity on both
\* residual branches, and two forward calls on the same input return the
\* same output.
C8_NoDropPathDeterministic ==
    /\ (pc # "new" /\ err = "none")
          => (obj.drop_path = "DropPath" <=> cfg.drop_path_rate > 0)
    /\ (pc \in {"called", "done"} /\ cfg.drop_path_rate = 0)
          => \A i \in 1..Len(out) :
                out[i].err = "none" =>
                    out[i].val
                      = FAdd(FAdd(inp.val,
                                  FMul(Fin(obj.layer_scale_1), out[i].attn_out)),
                             FMul(Fin(obj.layer_scale_2), out[i].mlp_out))
    /\ (pc = "done" /\ cfg.drop_path_rate = 0) => out[1] = out[2]

\* C8 witness: with drop_path_rate = 0, in training, two forward calls were
\* made, the branches changed the input, and the two outputs are equal.
C8_Witness ==
    /\ pc = "done" /\ cfg.drop_path_rate = 0 /\ cfg.training
    /\ obj.drop_path = "Identity"
    /\ out[1].err = "none"
    /\ out[1].val # inp.val
    /\ out[1] = out[2]

====
